---- MODULE Spec2Model ----
(***************************************************************************)
(* Model of src/static.ts (useStatic): a process-wide cache, per-call      *)
(* reactive result handles, the client watcher on the computed key, the    *)
(* asynchronous factory / artifact-fetch completions, and the server       *)
(* pre-render (onServerPrefetch) step with its artifact file write.        *)
(***************************************************************************)
EXTENDS Integers, Sequences, FiniteSets, TLC

\* ------------------------------------------------------------------ bounds
MaxInst == 2      \* useStatic calls made in one process/session
MaxRes == 2       \* resolutions started on a cache miss (watcher runs, pre-render steps)
NumParams == 2    \* distinct values the reactive parameter takes
MaxData == 1      \* payloads 0..MaxData a factory or artifact can deliver (0 is falsy)

\* ------------------------------------------------------------ value domain
KeyBase == "post"
Params == {ToString(n) : n \in 1..NumParams}
Data == 0..MaxData

\* key = computed(() => `${keyBase}-${param.value}`)
Key(kb, p) == kb \o "-" \o p
Keys == {Key(KeyBase, p) : p \in Params}

\* A resolved value, tagged with the key the factory (or artifact) produced it for.
Val(k, d) == [for |-> k, data |-> d]
Null == [for |-> "", data |-> -1]
\* JavaScript truthiness of a handle value: null and falsy payloads are empty.
Truthy(v) == v # Null /\ v.data # 0

PublicPath == "/_nuxt"
StaticPath == "static"
\* joinURL(publicPath, `${key}.json`)
JoinURL(base, name) == base \o "/" \o name
\* join(staticPath, `${key}.json`)
JoinPath(dir, name) == dir \o "/" \o name
JsonName(k) == k \o ".json"
\* JSON.stringify(result.value)
Stringify(v) == "{for:" \o v.for \o ",data:" \o ToString(v.data) \o "}"

VARIABLES
  isClient,     \* process.client
  isStatic,     \* process.static
  inlined,      \* client: the values the server inlined into the page, by key
  staticCache,  \* module-level cache: function from the keys present to values
  numInst,      \* number of useStatic calls made so far
  param,        \* param.value of each call
  result,       \* result.value of each call (the returned handle)
  watched,      \* client: the key value the watcher last ran for
  ops,          \* asynchronous operations started so far, with their status
  writes,       \* writeFileSync attempts made (server, static generation)
  files,        \* artifact files on disk: function from path to content
  firstVal,     \* history: the first value a completed resolution stored under each key
  ev            \* the step taken last

vars == <<isClient, isStatic, inlined, staticCache, numInst, param, result, watched,
          ops, writes, files, firstVal, ev>>

Insts == 1..MaxInst
Active == 1..numInst
\* The step taken last: its kind, the call and operation it belongs to, the key
\* it looked up or stored under, whether it was a cache hit, the value delivered.
Ev(t, i, id, k, h, v) ==
  [type |-> t, inst |-> i, id |-> id, key |-> k, hit |-> h, val |-> v]

\* key.value of call i
KeyOf(i) == Key(KeyBase, param[i])

\* Mutant of CacheSet: the store replaces the whole cache by the one entry.
CacheSetOnly(c, k, v) == [x \in {k} |-> v]
\* staticCache[k] = v
CacheSet(c, k, v) == [x \in DOMAIN c \cup {k} |-> IF x = k THEN v ELSE c[x]]
\* Mutant of InCache: the lookup never finds the key.
InCacheNever(c, k) == FALSE
\* key in staticCache
InCache(c, k) == k \in DOMAIN c

OpIds == 1..Len(ops)
\* Another resolution invoked for key k is still pending (other than operation self).
InFlight(k, self) ==
  \E id \in OpIds \ {self} : ops[id].status = "pending" /\ ops[id].key = k

\* A promise: the call it belongs to, what was invoked with which (param, key),
\* the failed fetch it is the fallback of (cause), and whether it was invoked
\* while another resolution for the same key was in flight (dup).
Op(i, kind, k, p, st, cause) ==
  [inst |-> i, kind |-> kind, key |-> k, param |-> p,
   url |-> IF kind = "fetch" THEN JoinURL(PublicPath, JsonName(k)) ELSE "",
   status |-> st, cause |-> cause, dup |-> k # "" /\ InFlight(k, cause)]

\* A settled promise keeps only its kind, outcome and cause.
Settle(id, st) ==
  [ops EXCEPT ![id] = [inst |-> 0, kind |-> @.kind, key |-> "", param |-> "",
                       url |-> "", status |-> st, cause |-> @.cause,
                       dup |-> FALSE]]
\* Resolutions started on a cache miss so far; a fallback factory call belongs
\* to the resolution whose fetch failed.
Started == Cardinality({id \in OpIds : ops[id].cause = 0})
MaxOps == 2 * MaxRes

\* Mutant of OnFailureCall: the factory is invoked with the default param.
OnFailureCallNoParam(i, pm, cause) ==
  Op(i, "factory", Key(KeyBase, pm[i]), "", "pending", cause)
\* onFailure = () => factory(param.value, key.value).then(...), with param.value
\* read from pm
OnFailureCall(i, pm, cause) ==
  Op(i, "factory", Key(KeyBase, pm[i]), pm[i], "pending", cause)
\* the key onFailure's continuation stores under: staticCache[key.value]
OnFailureStoreKey(i, op) == KeyOf(i)
\* Mutant of FetchStoreKey: the continuation stores under the key current at completion.
FetchStoreCurrentKey(i, op) == KeyOf(i)
\* the key the fetch continuation stores under: staticCache[key] (the watcher's argument)
FetchStoreKey(i, op) == op.key
\* Mutant of PrefetchStoreKey: the step stores under the key current at completion.
PrefetchStoreCurrentKey(i, op) == KeyOf(i)
\* the key the pre-render step stores under: staticCache[_key]
PrefetchStoreKey(i, op) == op.key

Init ==
  /\ isClient \in BOOLEAN
  /\ isStatic \in BOOLEAN
  /\ inlined \in [Keys -> {Null} \cup {Val(k, d) : k \in Keys, d \in Data}]
  /\ \A k \in Keys : inlined[k] # Null => isClient /\ inlined[k].for = k
  /\ staticCache = <<>>
  /\ numInst = 0
  /\ param = [i \in Insts |-> ""]
  /\ result = [i \in Insts |-> Null]
  /\ watched = [i \in Insts |-> ""]
  /\ ops = <<>>
  /\ writes = <<>>
  /\ files = <<>>
  /\ firstVal = <<>>
  /\ ev = Ev("init", 0, 0, "", FALSE, Null)

\* firstVal keeps the first value a completed resolution stored under each key.
RecordFirst(k, v) ==
  firstVal' = IF k \in DOMAIN firstVal THEN firstVal ELSE CacheSet(firstVal, k, v)

\* ssrRef(null, key.value): the handle starts null, or on the client with the
\* value the server inlined for this key.
SsrRef(k) == inlined[k]

\* The watch callback (lines 92-109) run for call i with key k, against cache c
\* and handles r.
WatchCallback(i, k, c, r, t) ==
  IF InCache(c, k)
  THEN /\ result' = [r EXCEPT ![i] = c[k]]
       /\ ops' = ops
       /\ ev' = Ev(t, i, 0, k, TRUE, c[k])
  ELSE /\ result' = r
       /\ IF ~isStatic
          THEN /\ Started < MaxRes
               /\ ops' = Append(ops, OnFailureCall(i, param', 0))
          ELSE /\ Started < MaxRes
               /\ ops' = Append(ops, Op(i, "fetch", k, param'[i], "pending", 0))
       /\ ev' = Ev(t, i, Len(ops) + 1, k, FALSE, Null)

\* Mutant of ServerSetup: the cache is not consulted at setup.
ServerSetupNoLookup(i, k, c, r) ==
  /\ result' = r
  /\ Started < MaxRes
  /\ ops' = Append(ops, Op(i, "prefetch", "", "", "registered", 0))
  /\ ev' = Ev("useStatic", i, Len(ops) + 1, k, InCache(c, k), Null)
\* Server branch of useStatic (lines 117-127) for call i with key k, against
\* cache c and handles r.
ServerSetup(i, k, c, r) ==
  IF InCache(c, k)
  THEN /\ result' = [r EXCEPT ![i] = c[k]]
       /\ ops' = ops
       /\ ev' = Ev("useStatic", i, 0, k, TRUE, c[k])
  ELSE /\ result' = r
       /\ Started < MaxRes
       /\ ops' = Append(ops, Op(i, "prefetch", "", "", "registered", 0))
       /\ ev' = Ev("useStatic", i, Len(ops) + 1, k, FALSE, Null)

\* Mutant of WriteFile: the guard is inverted, so a static build writes nothing.
WriteFileSkipped(k, value, ok) ==
  /\ writes' = writes
  /\ files' = files
\* Mutant of WriteFile: the early return is missing, so every call writes.
WriteFileAlways(k, value, ok) ==
  LET path == JoinPath(StaticPath, JsonName(k)) IN
  /\ writes' = Append(writes, [path |-> path, content |-> value, ok |-> ok])
  /\ files' = IF ok THEN CacheSet(files, path, value) ELSE files
\* writeFile(key, value): skipped on the client and outside static generation;
\* a failing writeFileSync is caught and logged.
WriteFile(k, value, ok) ==
  IF isClient \/ ~isStatic
  THEN /\ writes' = writes
       /\ files' = files
  ELSE LET path == JoinPath(StaticPath, JsonName(k)) IN
       /\ writes' = Append(writes, [path |-> path, content |-> value, ok |-> ok])
       /\ files' = IF ok THEN CacheSet(files, path, value) ELSE files

\* useStatic(factory, param, keyBase): a new call with param.value = p.
UseStatic(p) ==
  LET i == numInst + 1
      k == Key(KeyBase, p)
      inl == SsrRef(k)
      c == IF Truthy(inl) THEN CacheSet(staticCache, k, inl) ELSE staticCache
      r == [result EXCEPT ![i] = inl]
  IN /\ i <= MaxInst
     /\ numInst' = i
     /\ param' = [param EXCEPT ![i] = p]
     /\ staticCache' = c
     /\ firstVal' = firstVal
     /\ IF isClient
        THEN /\ WatchCallback(i, k, c, r, "useStatic")
             /\ watched' = [watched EXCEPT ![i] = k]
        ELSE /\ ServerSetup(i, k, c, r)
             /\ watched' = watched
     /\ UNCHANGED <<isClient, isStatic, inlined, writes, files>>

\* The caller assigns the reactive parameter of call i.
SetParam(i, p) ==
  /\ i \in Active
  /\ p # param[i]
  /\ param' = [param EXCEPT ![i] = p]
  /\ ev' = Ev("setParam", i, 0, "", FALSE, Null)
  /\ UNCHANGED <<isClient, isStatic, inlined, staticCache, firstVal, numInst, result, watched,
                 ops, writes, files>>

\* Client: the watcher of call i is flushed after its key changed.
WatcherRun(i) ==
  /\ isClient
  /\ i \in Active
  /\ KeyOf(i) # watched[i]
  /\ param' = param
  /\ WatchCallback(i, KeyOf(i), staticCache, result, "watch")
  /\ watched' = [watched EXCEPT ![i] = KeyOf(i)]
  /\ UNCHANGED <<isClient, isStatic, inlined, staticCache, firstVal, numInst, writes, files>>

\* Client: a factory promise started by onFailure resolves with payload d.
FactoryResolve(id, d) ==
  /\ id \in OpIds
  /\ ops[id].kind = "factory"
  /\ ops[id].status = "pending"
  /\ LET i == ops[id].inst
         r == Val(ops[id].key, d)
         sk == OnFailureStoreKey(i, ops[id])
     IN /\ staticCache' = CacheSet(staticCache, sk, r)
        /\ RecordFirst(sk, r)
        /\ result' = [result EXCEPT ![i] = r]
        /\ ops' = Settle(id, "resolved")
        /\ ev' = Ev("factoryResolve", i, id, sk, FALSE, r)
  /\ UNCHANGED <<isClient, isStatic, inlined, numInst, param, watched, writes, files>>

\* Mutant of FactoryReject: the rejection is caught and the factory retried.
FactoryRejectRetry(id) ==
  /\ id \in OpIds
  /\ ops[id].kind = "factory"
  /\ ops[id].status = "pending"
  /\ ops' = Append(Settle(id, "rejected"), OnFailureCall(ops[id].inst, param, id))
  /\ ev' = Ev("factoryReject", ops[id].inst, id, ops[id].key, FALSE, Null)
  /\ UNCHANGED <<isClient, isStatic, inlined, staticCache, firstVal, numInst, param, result,
                 watched, writes, files>>
\* Client: a factory promise started by onFailure rejects; nothing handles it.
FactoryReject(id) ==
  /\ id \in OpIds
  /\ ops[id].kind = "factory"
  /\ ops[id].status = "pending"
  /\ ops' = Settle(id, "rejected")
  /\ ev' = Ev("factoryReject", ops[id].inst, id, ops[id].key, FALSE, Null)
  /\ UNCHANGED <<isClient, isStatic, inlined, staticCache, firstVal, numInst, param, result,
                 watched, writes, files>>

\* Client, static build: the artifact fetch answers ok and its body parses.
FetchSucceed(id, d) ==
  /\ id \in OpIds
  /\ ops[id].kind = "fetch"
  /\ ops[id].status = "pending"
  /\ LET i == ops[id].inst
         json == Val(ops[id].key, d)
         sk == FetchStoreKey(i, ops[id])
     IN /\ staticCache' = CacheSet(staticCache, sk, json)
        /\ RecordFirst(sk, json)
        /\ result' = [result EXCEPT ![i] = json]
        /\ ops' = Settle(id, "resolved")
        /\ ev' = Ev("fetchSucceed", i, id, sk, FALSE, json)
  /\ UNCHANGED <<isClient, isStatic, inlined, numInst, param, watched, writes, files>>

FetchFailures == {"not-ok", "thrown", "parse"}

\* Mutant of FetchFail: the failure is swallowed without calling onFailure.
FetchFailSwallowed(id, why) ==
  /\ id \in OpIds
  /\ ops[id].kind = "fetch"
  /\ ops[id].status = "pending"
  /\ why \in FetchFailures
  /\ ops' = Settle(id, "failed")
  /\ ev' = Ev("fetchFail", ops[id].inst, id, ops[id].key, FALSE, Null)
  /\ UNCHANGED <<isClient, isStatic, inlined, staticCache, firstVal, numInst, param, result,
                 watched, writes, files>>

\* Client, static build: the fetch fails (non-ok response, thrown error or
\* unparsable body) and .catch(onFailure) invokes the factory.
FetchFail(id, why) ==
  /\ id \in OpIds
  /\ ops[id].kind = "fetch"
  /\ ops[id].status = "pending"
  /\ why \in FetchFailures
  /\ ops' = Append(Settle(id, "failed"), OnFailureCall(ops[id].inst, param, id))
  /\ ev' = Ev("fetchFail", ops[id].inst, id, ops[id].key, FALSE, Null)
  /\ UNCHANGED <<isClient, isStatic, inlined, staticCache, firstVal, numInst, param, result,
                 watched, writes, files>>

\* Mutant of PrefetchStart: the callback captures nothing when it starts.
PrefetchStartNoCapture(id) ==
  /\ id \in OpIds
  /\ ops[id].kind = "prefetch"
  /\ ops[id].status = "registered"
  /\ ops' = [ops EXCEPT ![id].status = "pending"]
  /\ ev' = Ev("prefetchStart", ops[id].inst, id, KeyOf(ops[id].inst), FALSE, Null)
  /\ UNCHANGED <<isClient, isStatic, inlined, staticCache, firstVal, numInst, param, result,
                 watched, writes, files>>
\* Server: the registered pre-render callback starts; it captures key and param
\* and invokes the factory.
PrefetchStart(id) ==
  /\ id \in OpIds
  /\ ops[id].kind = "prefetch"
  /\ ops[id].status = "registered"
  /\ LET i == ops[id].inst IN
     /\ ops' = [ops EXCEPT ![id].status = "pending", ![id].key = KeyOf(i),
                           ![id].param = param[i],
                           ![id].dup = InFlight(KeyOf(i), id)]
     /\ ev' = Ev("prefetchStart", i, id, KeyOf(i), FALSE, Null)
  /\ UNCHANGED <<isClient, isStatic, inlined, staticCache, firstVal, numInst, param, result,
                 watched, writes, files>>

\* Mutant of PrefetchResolve: the artifact is written before the handle is set,
\* so the content is the serialization of the handle's old value.
PrefetchResolveWriteBefore(id, d, ok) ==
  /\ id \in OpIds
  /\ ops[id].kind = "prefetch"
  /\ ops[id].status = "pending"
  /\ LET i == ops[id].inst
         r == Val(ops[id].key, d)
         sk == PrefetchStoreKey(i, ops[id])
     IN /\ WriteFile(sk, Stringify(result[i]), ok)
        /\ result' = [result EXCEPT ![i] = r]
        /\ staticCache' = CacheSet(staticCache, sk, r)
        /\ RecordFirst(sk, r)
        /\ ops' = Settle(id, "resolved")
        /\ ev' = Ev("prefetchResolve", i, id, sk, FALSE, r)
  /\ UNCHANGED <<isClient, isStatic, inlined, numInst, param, watched>>
\* Server: the awaited factory resolves with payload d; the step stores it in
\* the handle and the cache and writes the artifact (the write succeeds iff ok).
PrefetchResolve(id, d, ok) ==
  /\ id \in OpIds
  /\ ops[id].kind = "prefetch"
  /\ ops[id].status = "pending"
  /\ LET i == ops[id].inst
         r == Val(ops[id].key, d)
         sk == PrefetchStoreKey(i, ops[id])
     IN /\ result' = [result EXCEPT ![i] = r]
        /\ staticCache' = CacheSet(staticCache, sk, r)
        /\ RecordFirst(sk, r)
        /\ WriteFile(sk, Stringify(r), ok)
        /\ ops' = Settle(id, "resolved")
        /\ ev' = Ev("prefetchResolve", i, id, sk, FALSE, r)
  /\ UNCHANGED <<isClient, isStatic, inlined, numInst, param, watched>>

\* Server: the awaited factory rejects and the pre-render step rejects with it.
PrefetchReject(id) ==
  /\ id \in OpIds
  /\ ops[id].kind = "prefetch"
  /\ ops[id].status = "pending"
  /\ ops' = Settle(id, "rejected")
  /\ ev' = Ev("prefetchReject", ops[id].inst, id, ops[id].key, FALSE, Null)
  /\ UNCHANGED <<isClient, isStatic, inlined, staticCache, firstVal, numInst, param, result,
                 watched, writes, files>>

Next ==
  \/ \E p \in Params : UseStatic(p)
  \/ \E i \in Insts : \E p \in Params : SetParam(i, p)
  \/ \E i \in Insts : WatcherRun(i)
  \/ \E id \in 1..MaxOps : \E d \in Data : FactoryResolve(id, d)
  \/ \E id \in 1..MaxOps : FactoryReject(id)
  \/ \E id \in 1..MaxOps : \E d \in Data : FetchSucceed(id, d)
  \/ \E id \in 1..MaxOps : \E why \in FetchFailures : FetchFail(id, why)
  \/ \E id \in 1..MaxOps : PrefetchStart(id)
  \/ \E id \in 1..MaxOps : \E d \in Data : \E ok \in BOOLEAN : PrefetchResolve(id, d, ok)
  \/ \E id \in 1..MaxOps : PrefetchReject(id)

Spec == Init /\ [][Next]_vars

\* ------------------------------------------------------------------ claims
Starts == {"useStatic", "watch"}
\* The last operation of the primed state, i.e. the one a step appended.
LastOp == ops'[Len(ops')]

\* C1: a resolution that starts (client watcher run, immediate first run, or
\* server setup) for a key present in the cache sets the handle to the cached
\* value and starts nothing: no factory call, no fetch, no pre-render step.
C1_CacheHit ==
  [][(ev'.type \in Starts /\ ev'.key \in DOMAIN staticCache')
       => /\ result'[ev'.inst] = staticCache'[ev'.key]
          /\ ops' = ops]_vars

C1_Witness ==
  /\ ev.type = "watch"
  /\ ev.hit
  /\ result[ev.inst] = staticCache[ev.key]
  /\ Len(ops) > 0

\* C2: no cache entry holds a value that was resolved for a different key.
C2_NoWrongKey == \A k \in DOMAIN staticCache : staticCache[k].for = k

\* C3: client, no static build: a start that misses the cache invokes the
\* factory exactly once with the current (param, key) and fetches nothing; when
\* the invocation resolves with v while the key is still the one it was
\* invoked for, the handle is v and cache[key] is v.
C3_ClientMiss ==
  [][(isClient /\ ~isStatic) =>
       /\ (ev'.type \in Starts /\ ev'.key \notin DOMAIN staticCache')
            => /\ ops' = Append(ops, LastOp)
               /\ LastOp.kind = "factory" /\ LastOp.status = "pending"
               /\ LastOp.inst = ev'.inst
               /\ LastOp.param = param'[ev'.inst]
               /\ LastOp.key = Key(KeyBase, param'[ev'.inst])
               /\ LastOp.key = ev'.key
       /\ (ev'.type = "factoryResolve" /\ KeyOf(ev'.inst) = ops[ev'.id].key)
            => /\ ev'.val.for = ops[ev'.id].key
               /\ result'[ev'.inst] = ev'.val
               /\ ops[ev'.id].key \in DOMAIN staticCache'
               /\ staticCache'[ops[ev'.id].key] = ev'.val]_vars

C3_Witness ==
  /\ isClient /\ ~isStatic
  /\ ev.type = "factoryResolve"
  /\ KeyOf(ev.inst) = ev.val.for
  /\ result[ev.inst] = ev.val
  /\ staticCache[ev.val.for] = ev.val

\* C4: client, static build: a start that misses the cache issues exactly one
\* fetch, for <publicPath>/<key>.json, and no factory call; a factory call
\* exists only as the fallback of a failed fetch, exactly one per failed fetch;
\* when the fallback resolves with v, v is in the handle and in the cache (under
\* the key it was invoked for when that key is still current).
C4_StaticClientMiss ==
  [][(isClient /\ isStatic) =>
       /\ (ev'.type \in Starts /\ ev'.key \notin DOMAIN staticCache')
            => /\ ops' = Append(ops, LastOp)
               /\ LastOp.kind = "fetch" /\ LastOp.status = "pending"
               /\ LastOp.url = PublicPath \o "/" \o ev'.key \o ".json"
       /\ \A id \in DOMAIN ops' :
            /\ ops'[id].kind = "factory"
                 => /\ ops'[id].cause \in 1..(id - 1)
                    /\ ops'[ops'[id].cause].kind = "fetch"
                    /\ ops'[ops'[id].cause].status = "failed"
            /\ ops'[id].kind = "fetch"
                 => Cardinality({f \in DOMAIN ops' : ops'[f].cause = id})
                      = IF ops'[id].status = "failed" THEN 1 ELSE 0
       /\ ev'.type = "fetchFail"
            => /\ ops'[ev'.id].status = "failed"
               /\ Len(ops') = Len(ops) + 1
               /\ LastOp.kind = "factory" /\ LastOp.cause = ev'.id
       /\ ev'.type = "factoryResolve"
            => /\ result'[ev'.inst] = ev'.val
               /\ \E k \in DOMAIN staticCache' : staticCache'[k] = ev'.val
               /\ KeyOf(ev'.inst) = ops[ev'.id].key
                    => /\ ops[ev'.id].key \in DOMAIN staticCache'
                       /\ staticCache'[ops[ev'.id].key] = ev'.val]_vars

C4_Witness ==
  /\ isClient /\ isStatic
  /\ ev.type = "factoryResolve"
  /\ ops[ev.id].cause # 0
  /\ ops[ops[ev.id].cause].status = "failed"
  /\ result[ev.inst] = ev.val
  /\ staticCache[ev.val.for] = ev.val

\* C5: server: a setup that misses the cache registers exactly one pre-render
\* step; the step invokes the factory once (it starts once and never restarts);
\* when the factory resolves with v the handle and cache[key] are v by the time
\* the step has completed.
C5_ServerMiss ==
  [][~isClient =>
       /\ (ev'.type = "useStatic" /\ ev'.key \notin DOMAIN staticCache')
            => /\ ops' = Append(ops, LastOp)
               /\ LastOp.kind = "prefetch" /\ LastOp.status = "registered"
               /\ LastOp.inst = ev'.inst
       /\ \A id \in OpIds :
            /\ ops[id].status = "registered"
                 => ops'[id].status \in {"registered", "pending"}
            /\ ops[id].status = "pending"
                 => ops'[id].status \in {"pending", "resolved", "rejected"}
            /\ ops[id].status \in {"resolved", "rejected"} => ops'[id] = ops[id]
       /\ ev'.type = "prefetchStart"
            => /\ ops'[ev'.id].key = KeyOf(ev'.inst)
               /\ ops'[ev'.id].param = param[ev'.inst]
               /\ Len(ops') = Len(ops)
       /\ ev'.type = "prefetchResolve"
            => /\ ops'[ev'.id].status = "resolved"
               /\ ev'.val.for = ops[ev'.id].key
               /\ result'[ev'.inst] = ev'.val
               /\ ops[ev'.id].key \in DOMAIN staticCache'
               /\ staticCache'[ops[ev'.id].key] = ev'.val]_vars

C5_Witness ==
  /\ ~isClient
  /\ ev.type = "prefetchResolve"
  /\ ops[ev.id].status = "resolved"
  /\ result[ev.inst] = ev.val
  /\ staticCache[ev.val.for] = ev.val
  /\ KeyOf(ev.inst) # ev.val.for

Completions == {"factoryResolve", "fetchSucceed", "prefetchResolve"}

\* C6 as claimed: once a resolution has completed and populated cache[k], a
\* later resolution of k yields the same handle value as that first one.
C6_SameAsFirst ==
  (ev.type \in Starts /\ ev.hit /\ ev.key \in DOMAIN firstVal)
    => result[ev.inst] = firstVal[ev.key]

\* C6 amended: once a resolution has completed and populated cache[k], a later
\* resolution of k starts no factory call, fetch or pre-render step and yields
\* the value cache[k] holds at that moment, which is the first resolution's
\* value whenever the entry still holds it.
C6_Idempotent ==
  [][(ev'.type \in Starts /\ ev'.key \in DOMAIN firstVal
        /\ ev'.key \in DOMAIN staticCache')
       => /\ ops' = ops
          /\ result'[ev'.inst] = staticCache'[ev'.key]
          /\ staticCache'[ev'.key] = firstVal[ev'.key]
               => result'[ev'.inst] = firstVal[ev'.key]]_vars

C6_Witness ==
  /\ ev.type = "useStatic"
  /\ ev.hit
  /\ ev.key \in DOMAIN firstVal
  /\ result[ev.inst] = firstVal[ev.key]
  /\ \E id \in OpIds : ops[id].status = "resolved"

\* C7 as claimed: once cache[k] has been written, it keeps that value.
C7_Immutable ==
  [][\A k \in DOMAIN staticCache :
       k \in DOMAIN staticCache' /\ staticCache'[k] = staticCache[k]]_vars

\* C7 amended: once cache[k] has been written the key stays in the cache, and
\* its value is replaced only by the value a completing factory call, artifact
\* fetch or pre-render step delivers under k, or by a call seeding k from its
\* non-empty handle; no other step changes it.
C7_OverwrittenOnlyByCompletion ==
  [][\A k \in DOMAIN staticCache :
       /\ k \in DOMAIN staticCache'
       /\ staticCache'[k] # staticCache[k]
            => \/ /\ ev'.type \in Completions
                  /\ ev'.key = k
                  /\ staticCache'[k] = ev'.val
               \/ /\ ev'.type = "useStatic"
                  /\ ev'.key = k
                  /\ ev'.hit
                  /\ Truthy(staticCache'[k])
                  /\ result'[ev'.inst] = staticCache'[k]]_vars

C7_Witness ==
  /\ ev.type \in Completions
  /\ ev.key \in DOMAIN firstVal
  /\ firstVal[ev.key] # ev.val
  /\ staticCache[ev.key] = ev.val
  /\ ev.val.for = ev.key

\* C8: client, one call: once the parameter has changed, the watcher has run
\* for the new key and every resolution has completed successfully, the handle
\* holds a value resolved for the current key.
C8_HandleFollowsKey ==
  (/\ isClient
   /\ numInst = 1
   /\ watched[1] = KeyOf(1)
   /\ \A id \in OpIds : ops[id].status \in {"resolved", "failed"})
    => result[1].for = KeyOf(1)

\* C9: server, static build: a resolved pre-render factory call makes exactly
\* one write attempt, for <key>.json with the serialized value, and no other
\* step makes one; a failed write leaves the files alone, the step still
\* completes, and handle and cache[key] hold the resolved value.
C9_OneWritePerResolution ==
  [][(~isClient /\ isStatic) =>
       /\ ev'.type # "prefetchResolve" => (writes' = writes /\ files' = files)
       /\ ev'.type = "prefetchResolve"
            => /\ Len(writes') = Len(writes) + 1
               /\ SubSeq(writes', 1, Len(writes)) = writes
               /\ writes'[Len(writes')].path
                    = StaticPath \o "/" \o ops[ev'.id].key \o ".json"
               /\ writes'[Len(writes')].content = Stringify(ev'.val)
               /\ ~writes'[Len(writes')].ok => files' = files
               /\ ops'[ev'.id].status = "resolved"
               /\ result'[ev'.inst] = ev'.val
               /\ ops[ev'.id].key \in DOMAIN staticCache'
               /\ staticCache'[ops[ev'.id].key] = ev'.val]_vars

C9_Witness ==
  /\ ~isClient /\ isStatic
  /\ ev.type = "prefetchResolve"
  /\ Len(writes) > 0
  /\ ~writes[Len(writes)].ok
  /\ ops[ev.id].status = "resolved"
  /\ result[ev.inst] = ev.val
  /\ staticCache[ev.key] = ev.val

Rejections == {"factoryReject", "prefetchReject"}

\* C10: when the factory rejects (client direct call, client fallback, server
\* pre-render step) the handles, the cache and the files are unchanged, no
\* write is attempted, and the factory is not invoked again: the rejected
\* operation stays rejected and no new operation starts.
C10_RejectLeavesState ==
  [][/\ ev'.type \in Rejections
          => /\ result' = result
             /\ staticCache' = staticCache
             /\ writes' = writes
             /\ files' = files
             /\ Len(ops') = Len(ops)
             /\ ops'[ev'.id].status = "rejected"
             /\ \A id \in OpIds \ {ev'.id} : ops'[id] = ops[id]
     /\ \A id \in OpIds : ops[id].status = "rejected" => ops'[id] = ops[id]]_vars

C10_Witness ==
  /\ ev.type = "factoryReject"
  /\ ops[ev.id].status = "rejected"
  /\ ops[ev.id].cause # 0
  /\ result[ev.inst] = Null
  /\ staticCache = <<>>

\* C11: client: a call whose handle starts with a value (not null) seeds the
\* cache with it under the current key, so its immediate watcher run is a cache
\* hit that keeps the inlined value and starts neither the factory nor a fetch.
C11_InlinedValueSeedsCache ==
  (isClient /\ ev.type = "useStatic" /\ inlined[ev.key] # Null)
    => /\ ev.hit
       /\ ev.key \in DOMAIN staticCache
       /\ staticCache[ev.key] = inlined[ev.key]
       /\ result[ev.inst] = inlined[ev.key]

\* C12: client, static build: whenever the factory is invoked, its key is absent
\* from the cache at that moment, and the invocation follows the failure of a
\* fetch of that same key's artifact.
C12_FactoryAfterOwnFetchFailed ==
  [][(isClient /\ isStatic /\ Len(ops') > Len(ops) /\ LastOp.kind = "factory")
       => /\ LastOp.key \notin DOMAIN staticCache'
          /\ ev'.type = "fetchFail"
          /\ ops[ev'.id].key = LastOp.key]_vars

\* C13: on the client, and on the server outside static generation, no write
\* is ever attempted and no file exists; a resolved server pre-render step
\* updates the handle and the cache in the same way whether or not the build is
\* a static generation.
C13_WritesOnlyServerStatic ==
  [][/\ (isClient \/ ~isStatic) => (writes' = <<>> /\ files' = <<>>)
     /\ (~isClient /\ ev'.type = "prefetchResolve")
          => LET k == ops[ev'.id].key IN
             /\ result' = [result EXCEPT ![ev'.inst] = ev'.val]
             /\ staticCache' = [x \in DOMAIN staticCache \cup {k} |->
                                  IF x = k THEN ev'.val ELSE staticCache[x]]]_vars

C13_Witness ==
  /\ ~isClient /\ ~isStatic
  /\ ev.type = "prefetchResolve"
  /\ writes = <<>> /\ files = <<>>
  /\ result[ev.inst] = ev.val
  /\ ev.key \in DOMAIN staticCache
  /\ staticCache[ev.key] = ev.val

\* C14: client, static build: when the artifact fetch for key k succeeds, the
\* parsed JSON is stored in cache[k], for the key the fetch was issued for, and
\* in the handle; the factory is never invoked for that resolution.
C14_FetchSuccessStores ==
  [][(isClient /\ isStatic) =>
       /\ ev'.type = "fetchSucceed"
            => LET k == ops[ev'.id].key IN
               /\ ops[ev'.id].url = PublicPath \o "/" \o k \o ".json"
               /\ ev'.val.for = k
               /\ k \in DOMAIN staticCache'
               /\ staticCache'[k] = ev'.val
               /\ result'[ev'.inst] = ev'.val
               /\ Len(ops') = Len(ops)
               /\ ops'[ev'.id].status = "resolved"
       /\ \A id \in DOMAIN ops' :
            (ops'[id].kind = "fetch" /\ ops'[id].status = "resolved")
              => ~\E f \in DOMAIN ops' : ops'[f].cause = id]_vars

C14_Witness ==
  /\ isClient /\ isStatic
  /\ ev.type = "fetchSucceed"
  /\ KeyOf(ev.inst) # ev.val.for
  /\ ev.val.for \in DOMAIN staticCache
  /\ staticCache[ev.val.for] = ev.val
  /\ result[ev.inst] = ev.val
  /\ \A id \in OpIds : ops[id].kind = "fetch"

\* C15: server: the pre-render step captures key and param when it starts and
\* keeps them while the factory is pending, whatever happens to the parameter;
\* the factory is invoked with the captured (param, key), and its result is
\* stored in the cache under the captured key and, in a static build, written
\* to the file named after the captured key.
C15_PrefetchCapturesKey ==
  [][~isClient =>
       /\ ev'.type = "prefetchStart"
            => /\ ops'[ev'.id].status = "pending"
               /\ ops'[ev'.id].param = param[ev'.inst]
               /\ ops'[ev'.id].key = Key(KeyBase, param[ev'.inst])
       /\ \A id \in OpIds :
            (ops[id].status = "pending" /\ ops'[id].status = "pending")
              => (ops'[id].key = ops[id].key /\ ops'[id].param = ops[id].param)
       /\ ev'.type = "prefetchResolve"
            => LET k == ops[ev'.id].key IN
               /\ k = Key(KeyBase, ops[ev'.id].param)
               /\ ev'.val.for = k
               /\ ev'.key = k
               /\ k \in DOMAIN staticCache'
               /\ staticCache'[k] = ev'.val
               /\ isStatic
                    => /\ Len(writes') = Len(writes) + 1
                       /\ writes'[Len(writes')].path
                            = StaticPath \o "/" \o k \o ".json"]_vars

C15_Witness ==
  /\ ~isClient /\ isStatic
  /\ ev.type = "prefetchResolve"
  /\ KeyOf(ev.inst) # ev.val.for
  /\ ev.val.for \in DOMAIN staticCache
  /\ staticCache[ev.val.for] = ev.val
  /\ KeyOf(ev.inst) \notin DOMAIN staticCache
  /\ Len(writes) > 0
  /\ writes[Len(writes)].path = StaticPath \o "/" \o ev.val.for \o ".json"

\* C16: the cache has no eviction: no step removes a key from the cache, so a
\* key once present stays present for the lifetime of the process.
C16_NoEviction ==
  [][DOMAIN staticCache \subseteq DOMAIN staticCache']_vars

C16_Witness ==
  /\ Cardinality(DOMAIN staticCache) >= 2
  /\ ev.type \in Completions
  /\ ev.val.for \in DOMAIN staticCache
  /\ staticCache[ev.val.for] # ev.val

\* C17: in-flight resolutions are not de-duplicated: every start that misses
\* the cache issues one more invocation for its key, even while another
\* resolution for that key is pending, and invocations are issued by nothing
\* else than such a start or the fallback of a failed fetch; when a resolution
\* that was started while another one for the same key k was in flight
\* completes last (no resolution for k remains pending), its value is in
\* cache[k].
C17_LastCompletionInCache ==
  [][/\ (ev'.type \in Starts /\ ev'.key \notin DOMAIN staticCache')
          => /\ Len(ops') = Len(ops) + 1
             /\ isClient => (LastOp.key = ev'.key /\ LastOp.status = "pending")
     /\ Len(ops') > Len(ops)
          => \/ ev'.type \in Starts /\ ev'.key \notin DOMAIN staticCache'
             \/ ev'.type = "fetchFail"
     /\ (ev'.type \in Completions /\ ops[ev'.id].dup
           /\ ~InFlight(ops[ev'.id].key, ev'.id))
          => LET k == ops[ev'.id].key IN
             /\ k \in DOMAIN staticCache'
             /\ staticCache'[k] = ev'.val]_vars

\* C18: a write of <k>.json is made only by the step in which the factory for
\* k resolved, and what it writes is the serialization of the value the handle
\* and cache[k] hold once that step has stored it; a file changes only by such
\* a write; a step in which the factory rejected or the value was served from
\* the cache writes nothing.
C18_WriteAfterStore ==
  [][/\ writes' # writes
          => /\ ev'.type = "prefetchResolve"
             /\ Len(writes') = Len(writes) + 1
             /\ LET k == ops[ev'.id].key
                    w == writes'[Len(writes')]
                IN /\ w.path = StaticPath \o "/" \o k \o ".json"
                   /\ k \in DOMAIN staticCache'
                   /\ w.content = Stringify(staticCache'[k])
                   /\ w.content = Stringify(result'[ev'.inst])
                   /\ staticCache'[k].for = k
                   /\ w.ok => (w.path \in DOMAIN files' /\ files'[w.path] = w.content)
     /\ files' # files => writes' # writes
     /\ (ev'.type \in Rejections \/ ev'.hit)
          => (writes' = writes /\ files' = files)]_vars

C18_Witness ==
  /\ ev.type = "prefetchResolve"
  /\ Len(writes) = 2
  /\ writes[2].ok
  /\ writes[2].path = writes[1].path
  /\ writes[2].content # writes[1].content
  /\ writes[2].path \in DOMAIN files
  /\ files[writes[2].path] = Stringify(staticCache[ev.key])
  /\ files[writes[2].path] = Stringify(result[ev.inst])

====
